---- MODULE Spec2Model ----
(***************************************************************************)
(* Model of app.py: the "paste raw text -> table" order parser.            *)
(*                                                                         *)
(* Text is a sequence of one-character strings.  Offsets kept in the state *)
(* are 0-based like Python's m.start() / m.end(); the slice t[a:b] is      *)
(* Slice(t, a, b).  The regular expressions of the source are kept as      *)
(* data (a list of alternatives, each a list of elements) and run by a     *)
(* backtracking matcher with the semantics of Python's re module.          *)
(***************************************************************************)
EXTENDS Integers, Sequences, FiniteSets, TLC

VARIABLES raw, sort_desc, screen, blocks, fields, rows, df, missing

vars == <<raw, sort_desc, screen, blocks, fields, rows, df, missing>>

(***************************************************************************)
(* Characters                                                              *)
(***************************************************************************)
DigitChars == <<"0", "1", "2", "3", "4", "5", "6", "7", "8", "9">>

UpperChars ==
  <<"A", "B", "C", "D", "E", "F", "G", "H", "I", "J", "K", "L", "M",
    "N", "O", "P", "Q", "R", "S", "T", "U", "V", "W", "X", "Y", "Z">>

LowerChars ==
  <<"a", "b", "c", "d", "e", "f", "g", "h", "i", "j", "k", "l", "m",
    "n", "o", "p", "q", "r", "s", "t", "u", "v", "w", "x", "y", "z">>

Range(s) == {s[i] : i \in 1..Len(s)}

Digits == Range(DigitChars)

UpperSet == Range(UpperChars)

LowerSet == Range(LowerChars)

\* \s of the re module, restricted to the characters a paste can carry here
Whitespace == {" ", "\t", "\n", "\r"}

\* \w of the re module
WordChars == Digits \cup UpperSet \cup LowerSet \cup {"_"}

IndexIn(s, c) == CHOOSE i \in 1..Len(s) : s[i] = c

LowerOf == [c \in UpperSet |-> LowerChars[IndexIn(UpperChars, c)]]

UpperOf == [c \in LowerSet |-> UpperChars[IndexIn(LowerChars, c)]]

\* str.lower() on one character
Lower(c) == IF c \in UpperSet THEN LowerOf[c] ELSE c

\* str.upper() on one character
Upper(c) == IF c \in LowerSet THEN UpperOf[c] ELSE c

\* Python slice t[a:b] for 0 <= a, b
Slice(t, a, b) == SubSeq(t, a + 1, IF b > Len(t) THEN Len(t) ELSE b)

\* the absent location offset (Python None)
None == -1

(***************************************************************************)
(* Regular expressions                                                     *)
(*   element kinds: "b" \b   "c" literal   "d" \d   "s" \s   "s*" \s*      *)
(*                  "?" optional literal   "n*" [^\n]*                     *)
(***************************************************************************)
El(k, c) == [k |-> k, c |-> c]

Bnd == <<El("b", "")>>

Lit(s) == [i \in 1..Len(s) |-> El("c", s[i])]

Dig(n) == [i \in 1..n |-> El("d", "")]

WsStar == <<El("s*", "")>>

WsPlus == <<El("s", ""), El("s*", "")>>

Opt(c) == <<El("?", c)>>

NotNlStar == <<El("n*", "")>>

IsWordAt(t, p) == p >= 1 /\ p <= Len(t) /\ t[p] \in WordChars

\* \b between t[p-1] and t[p] (1-based p, p in 1..Len(t)+1)
Boundary(t, p) == IsWordAt(t, p - 1) # IsWordAt(t, p)

CharEq(ic, a, b) == IF ic THEN Lower(a) = Lower(b) ELSE a = b

\* Try to match elements k.. of pat at 1-based position p of t.  The result
\* is the 1-based position after the match, or 0 when there is no match.
\* Greedy quantifiers give back characters when the rest fails.
RECURSIVE MatchFrom(_, _, _, _, _)
MatchFrom(ic, pat, k, t, p) ==
  IF k > Len(pat) THEN p
  ELSE LET e == pat[k]
           has == p <= Len(t)
       IN CASE e.k = "b" ->
                 IF Boundary(t, p) THEN MatchFrom(ic, pat, k + 1, t, p) ELSE 0
            [] e.k = "c" ->
                 IF has /\ CharEq(ic, t[p], e.c)
                 THEN MatchFrom(ic, pat, k + 1, t, p + 1) ELSE 0
            [] e.k = "d" ->
                 IF has /\ t[p] \in Digits
                 THEN MatchFrom(ic, pat, k + 1, t, p + 1) ELSE 0
            [] e.k = "s" ->
                 IF has /\ t[p] \in Whitespace
                 THEN MatchFrom(ic, pat, k + 1, t, p + 1) ELSE 0
            [] e.k = "s*" ->
                 IF has /\ t[p] \in Whitespace
                 THEN LET r == MatchFrom(ic, pat, k, t, p + 1)
                      IN IF r # 0 THEN r ELSE MatchFrom(ic, pat, k + 1, t, p)
                 ELSE MatchFrom(ic, pat, k + 1, t, p)
            [] e.k = "n*" ->
                 IF has /\ t[p] # "\n"
                 THEN LET r == MatchFrom(ic, pat, k, t, p + 1)
                      IN IF r # 0 THEN r ELSE MatchFrom(ic, pat, k + 1, t, p)
                 ELSE MatchFrom(ic, pat, k + 1, t, p)
            [] e.k = "?" ->
                 IF has /\ CharEq(ic, t[p], e.c)
                 THEN LET r == MatchFrom(ic, pat, k + 1, t, p + 1)
                      IN IF r # 0 THEN r ELSE MatchFrom(ic, pat, k + 1, t, p)
                 ELSE MatchFrom(ic, pat, k + 1, t, p)

\* The alternatives of rx are tried in order at position p; first one wins.
RECURSIVE MatchAlt(_, _, _, _)
MatchAlt(rx, a, t, p) ==
  IF a > Len(rx.alts) THEN 0
  ELSE LET r == MatchFrom(rx.ic, rx.alts[a], 1, t, p)
       IN IF r # 0 THEN r ELSE MatchAlt(rx, a + 1, t, p)

\* rx.match at 1-based position p: end position (1-based, exclusive) or 0
MatchAt(rx, t, p) == MatchAlt(rx, 1, t, p)

\* the 1-based positions at or after p where rx matches
MatchStarts(rx, t, p) == {q \in p..(Len(t) + 1) : MatchAt(rx, t, q) # 0}

Min(S) == CHOOSE x \in S : \A y \in S : x <= y

Max(S) == CHOOSE x \in S : \A y \in S : x >= y

\* rx.finditer(t): the non-overlapping matches, left to right, as 0-based
\* [start, end) spans; the scan resumes where the previous match ended
RECURSIVE FindIterFrom(_, _, _)
FindIterFrom(rx, t, p) ==
  LET starts == MatchStarts(rx, t, p)
  IN IF starts = {} THEN <<>>
     ELSE LET q == Min(starts)
              e == MatchAt(rx, t, q)
          IN <<[start |-> q - 1, end |-> e - 1]>>
               \o FindIterFrom(rx, t, IF e = q THEN q + 1 ELSE e)

FindIter(rx, t) == FindIterFrom(rx, t, 1)

\* rx.search(t): the first match, or <<>> for None
Search(rx, t) ==
  LET starts == MatchStarts(rx, t, 1)
  IN IF starts = {} THEN <<>>
     ELSE LET q == Min(starts)
          IN <<[start |-> q - 1, end |-> MatchAt(rx, t, q) - 1]>>

\* m.group(1); in every pattern of the source group 1 spans the whole match
Group1(t, m) == Slice(t, m.start, m.end)

(***************************************************************************)
(* Patterns                                                                *)
(***************************************************************************)
ORDER_RE ==
  [ic |-> FALSE, alts |-> <<Bnd \o Lit(<<"2">>) \o Dig(8) \o Bnd>>]

\* DATE_RE without the time of day; C10 depends on the time being matched
DATE_RE_DateOnly ==
  [ic |-> FALSE,
   alts |-> <<Bnd \o Dig(4) \o Lit(<<"-">>) \o Dig(2) \o Lit(<<"-">>) \o Dig(2) \o Bnd>>]

DATE_RE ==
  [ic |-> FALSE,
   alts |-> <<Bnd \o Dig(4) \o Lit(<<"-">>) \o Dig(2) \o Lit(<<"-">>) \o Dig(2)
                \o WsPlus \o Dig(2) \o Lit(<<":">>) \o Dig(2) \o Bnd>>]

StatusWords ==
  << <<"c","h","e","c","k","e","d">>,
     <<"p","i","c","k","e","d">>,
     <<"p","i","c","k","i","n","g">>,
     <<"s","t","a","r","t","e","d">>,
     <<"c","o","m","p","l","e","t","e","d">>,
     <<"c","o","m","p","l","e","t","e">>,
     <<"r","e","a","d","y">>,
     <<"p","a","c","k","i","n","g">>,
     <<"p","a","c","k","e","d">> >>

\* STATUS_RE without the \b anchors; C4 depends on whole-word matching
STATUS_RE_Unanchored ==
  [ic |-> TRUE, alts |-> [i \in 1..Len(StatusWords) |-> Lit(StatusWords[i])]]

STATUS_RE ==
  [ic |-> TRUE,
   alts |-> [i \in 1..Len(StatusWords) |-> Bnd \o Lit(StatusWords[i]) \o Bnd]]

NoteLeads ==
  << <<"I","n","c","o","m">>,
     <<"r","e","m","a","i","n","i","n","g"," ","i","t","e","m">>,
     <<"m","i","s","s","i","n","g">> >>

NOTES_RE ==
  [ic |-> TRUE,
   alts |-> [i \in 1..Len(NoteLeads) |-> Lit(NoteLeads[i]) \o NotNlStar]]

\* f"{i:02d}"
DD(i) == <<DigitChars[(i \div 10) + 1], DigitChars[(i % 10) + 1]>>

PUP == <<"P", "U", "P">>

\* \s*-?\s*
Sep == WsStar \o Opt("-") \o WsStar

BayPattern(letter, i) ==
  [rx |-> [ic |-> TRUE,
           alts |-> <<Bnd \o Lit(<<letter>>) \o Sep \o Lit(DD(i)) \o WsStar
                        \o Opt("*") \o WsStar \o Opt("-") \o WsStar
                        \o Lit(PUP) \o Bnd>>],
   canon |-> <<letter, "-">> \o DD(i) \o <<" ">> \o PUP]

\* RackPattern with the label written "Rack-..."; C9 depends on the labels
RackPattern_MixedCase(lvl, i) ==
  [rx |-> [ic |-> TRUE,
           alts |-> <<Bnd \o Lit(<<"R","A","C","K">>) \o Sep \o Lit(lvl) \o Sep
                        \o Lit(DD(i)) \o Sep \o Lit(PUP) \o Bnd>>],
   canon |-> <<"R","a","c","k","-">> \o lvl \o <<"-">> \o DD(i) \o <<"-">> \o PUP]

RackPattern(lvl, i) ==
  [rx |-> [ic |-> TRUE,
           alts |-> <<Bnd \o Lit(<<"R","A","C","K">>) \o Sep \o Lit(lvl) \o Sep
                        \o Lit(DD(i)) \o Sep \o Lit(PUP) \o Bnd>>],
   canon |-> <<"R","A","C","K","-">> \o lvl \o <<"-">> \o DD(i) \o <<"-">> \o PUP]

CubePattern(i) ==
  [rx |-> [ic |-> TRUE,
           alts |-> <<Bnd \o Lit(<<"C","U","B","E">>) \o Sep
                        \o Lit(<<DigitChars[i + 1]>>) \o WsStar \o Opt("-")
                        \o WsStar \o Opt("*") \o WsStar \o Lit(PUP) \o Bnd>>],
   canon |-> <<"C","U","B","E","-", DigitChars[i + 1], "-">> \o PUP]

PupBoxPattern ==
  [rx |-> [ic |-> TRUE,
           alts |-> <<Bnd \o Lit(PUP) \o Sep \o Lit(<<"B","O","X">>) \o Bnd>>],
   canon |-> <<"P","U","P","-","B","O","X">>]

PalletsPattern ==
  [rx |-> [ic |-> TRUE,
           alts |-> <<Bnd \o Lit(<<"P","A","L","L","E","T","S">>) \o WsPlus
                        \o Lit(PUP) \o Bnd>>],
   canon |-> <<"P","A","L","L","E","T","S"," ","P","U","P">>]

PupDoorPattern ==
  [rx |-> [ic |-> TRUE,
           alts |-> <<Bnd \o Lit(PUP) \o Sep \o Lit(<<"D","O","O","R">>) \o Bnd>>],
   canon |-> <<"P","U","P"," ","D","O","O","R">>]

NextToCubesPattern ==
  [rx |-> [ic |-> TRUE,
           alts |-> <<Bnd \o Lit(<<"N","E","X","T">>) \o WsPlus \o Lit(<<"T","O">>)
                        \o WsPlus \o Lit(<<"C","U","B","E","S">>) \o Bnd>>],
   canon |-> <<"N","E","X","T"," ","T","O"," ","C","U","B","E","S">>]

HIGH == <<"H","I","G","H">>

LOW == <<"L","O","W">>

build_location_patterns ==
  [i \in 1..13 |-> BayPattern("A", i)]
    \o [i \in 1..12 |-> BayPattern("B", i)]
    \o <<PupBoxPattern>>
    \o [i \in 1..6 |-> RackPattern(HIGH, i)]
    \o [i \in 1..6 |-> RackPattern(LOW, i)]
    \o [i \in 1..9 |-> CubePattern(i)]
    \o <<PalletsPattern, PupDoorPattern, NextToCubesPattern>>

LOC_PATTERNS == build_location_patterns

(***************************************************************************)
(* Extractors                                                              *)
(***************************************************************************)
\* parse_blocks with each block starting after its order number (m.end());
\* C1 depends on the block starting at m.start()
parse_blocks_AfterNumber(text) ==
  LET matches == FindIter(ORDER_RE, text)
  IN [i \in 1..Len(matches) |->
        LET start == matches[i].end
            end == IF i + 1 <= Len(matches) THEN matches[i + 1].start ELSE Len(text)
        IN [order_no |-> Group1(text, matches[i]),
            text |-> Slice(text, start, end)]]

\* blocks.append((m.group(1), text[start:end])) for each match
parse_blocks(text) ==
  LET matches == FindIter(ORDER_RE, text)
  IN [i \in 1..Len(matches) |->
        LET start == matches[i].start
            end == IF i + 1 <= Len(matches) THEN matches[i + 1].start ELSE Len(text)
        IN [order_no |-> Group1(text, matches[i]),
            text |-> Slice(text, start, end)]]

\* str.capitalize()
capitalize(s) ==
  [i \in 1..Len(s) |-> IF i = 1 THEN Upper(s[i]) ELSE Lower(s[i])]

extract_status(block_text) ==
  LET m == Search(STATUS_RE, block_text)
  IN IF m # <<>> THEN capitalize(Group1(block_text, m[1])) ELSE <<>>

\* the inner loop "for m in rx.finditer(block_text)" over matches k..
RECURSIVE LocScanMatches(_, _, _, _)
LocScanMatches(best, canon, ms, k) ==
  IF k > Len(ms) THEN best
  ELSE LocScanMatches(
         IF best = <<>> \/ ms[k].start > best[1][1]
         THEN <<<<ms[k].start, canon>>>> ELSE best,
         canon, ms, k + 1)

\* the outer loop "for rx, canon in LOC_PATTERNS" over the patterns hits[j..];
\* hits lists, in list order, the patterns whose finditer yields anything
RECURSIVE LocScanPatterns(_, _, _, _)
LocScanPatterns(best, block_text, hits, j) ==
  IF j > Len(hits) THEN best
  ELSE LocScanPatterns(
         LocScanMatches(best, LOC_PATTERNS[hits[j]].canon,
                        FindIter(LOC_PATTERNS[hits[j]].rx, block_text), 1),
         block_text, hits, j + 1)

\* extract_location that stops at the first pattern of the list that matches;
\* C3 depends on the comparison of start offsets across patterns
extract_location_FirstListed(block_text) ==
  LET hits == SelectSeq([j \in 1..Len(LOC_PATTERNS) |-> j],
                        LAMBDA j : FindIter(LOC_PATTERNS[j].rx, block_text) # <<>>)
  IN IF hits # <<>>
     THEN [loc |-> LOC_PATTERNS[hits[1]].canon,
           loc_start |-> FindIter(LOC_PATTERNS[hits[1]].rx, block_text)[1].start]
     ELSE [loc |-> <<>>, loc_start |-> None]

\* returns [loc, loc_start]; best is <<>> for None, else <<(start, canon)>>
extract_location(block_text) ==
  LET hits == SelectSeq([j \in 1..Len(LOC_PATTERNS) |-> j],
                        LAMBDA j : FindIter(LOC_PATTERNS[j].rx, block_text) # <<>>)
      best == LocScanPatterns(<<>>, block_text, hits, 1)
  IN IF best # <<>>
     THEN [loc |-> best[1][2], loc_start |-> best[1][1]]
     ELSE [loc |-> <<>>, loc_start |-> None]

\* extract_service_date that scans the whole block; C2 depends on the scan
\* stopping at the location
extract_service_date_WholeBlock(block_text, loc_start) ==
  LET candidates == FindIter(DATE_RE, block_text)
  IN IF candidates # <<>> THEN Group1(block_text, candidates[Len(candidates)]) ELSE <<>>

extract_service_date(block_text, loc_start) ==
  LET scan_upto == IF loc_start # None THEN loc_start ELSE Len(block_text)
      head == Slice(block_text, 0, scan_upto)
      candidates == FindIter(DATE_RE, head)
  IN IF candidates # <<>> THEN Group1(head, candidates[Len(candidates)]) ELSE <<>>

\* str.strip()
RECURSIVE LStrip(_)
LStrip(s) ==
  IF s # <<>> /\ Head(s) \in Whitespace THEN LStrip(Tail(s)) ELSE s

RECURSIVE RStrip(_)
RStrip(s) ==
  IF s # <<>> /\ s[Len(s)] \in Whitespace THEN RStrip(SubSeq(s, 1, Len(s) - 1)) ELSE s

strip(s) == RStrip(LStrip(s))

\* sep.join(parts)
RECURSIVE join(_, _)
join(sep, parts) ==
  IF parts = <<>> THEN <<>>
  ELSE IF Len(parts) = 1 THEN parts[1]
  ELSE parts[1] \o sep \o join(sep, Tail(parts))

\* extract_notes that keeps the first note only (search for findall); C6
\* depends on all notes being joined
extract_notes_FirstOnly(block_text) ==
  LET m == Search(NOTES_RE, block_text)
  IN IF m # <<>> THEN strip(Group1(block_text, m[1])) ELSE <<>>

extract_notes(block_text) ==
  LET ms == FindIter(NOTES_RE, block_text)
      notes == [i \in 1..Len(ms) |-> Group1(block_text, ms[i])]
  IN IF notes # <<>>
     THEN join(<<";", " ">>, [i \in 1..Len(notes) |-> strip(notes[i])])
     ELSE <<>>

(***************************************************************************)
(* Table construction                                                      *)
(***************************************************************************)
\* pandas NaT
NaT == -1

Num(c) == IndexIn(DigitChars, c) - 1

Num2(s, a) == Num(s[a]) * 10 + Num(s[a + 1])

Num4(s, a) == Num2(s, a) * 100 + Num2(s, a + 2)

IsLeap(y) == (y % 4 = 0 /\ y % 100 # 0) \/ y % 400 = 0

DaysIn(y, m) ==
  IF m = 2 THEN (IF IsLeap(y) THEN 29 ELSE 28)
  ELSE IF m \in {4, 6, 9, 11} THEN 30 ELSE 31

\* pd.to_datetime(value, errors="coerce") on one cell: a string that is not a
\* date and time of the calendar (or lies outside the Timestamp range) becomes
\* NaT; a timestamp is kept as its minute count, which orders as time does.
to_datetime(s) ==
  IF s = <<>> \/ MatchAt(DATE_RE, s, 1) # Len(s) + 1 THEN NaT
  ELSE LET y == Num4(s, 1)
           mo == Num2(s, 6)
           d == Num2(s, 9)
           h == Num2(s, Len(s) - 4)
           mi == Num2(s, Len(s) - 1)
       IN IF y >= 1678 /\ y <= 2261 /\ mo >= 1 /\ mo <= 12
             /\ d >= 1 /\ d <= DaysIn(y, mo) /\ h <= 23 /\ mi <= 59
          THEN (((y * 12 + (mo - 1)) * 31 + (d - 1)) * 24 + h) * 60 + mi
          ELSE NaT

\* df["Service date"] = pd.to_datetime(df["Service date"], errors="coerce")
CoerceDates(rs) ==
  [i \in 1..Len(rs) |-> [rs[i] EXCEPT !.Service_date = to_datetime(@)]]

\* the orders in which a sort that is not stable may leave the rows S (a set
\* of row indices) of frame d, by Service_date
RECURSIVE Orderings(_, _, _)
Orderings(d, S, ascending) ==
  IF S = {} THEN {<<>>}
  ELSE UNION {
         {<<m>> \o r : r \in Orderings(d, S \ {m}, ascending)} :
           m \in {x \in S : \A y \in S :
                    IF ascending
                    THEN d[x].Service_date <= d[y].Service_date
                    ELSE d[x].Service_date >= d[y].Service_date}}

\* sort_values that leaves out the rows without a date; C5 depends on the
\* NaT rows being kept
sort_values_DropNa(d, ascending) ==
  LET dated == {i \in 1..Len(d) : d[i].Service_date # NaT}
  IN {[k \in 1..Len(o) |-> d[o[k]]] : o \in Orderings(d, dated, ascending)}

\* sort_values with the NaT rows first (na_position="first"); C8 depends on
\* the NaT rows coming last
sort_values_NaFirst(d, ascending) ==
  LET dated == {i \in 1..Len(d) : d[i].Service_date # NaT}
      nan_idx == SelectSeq([i \in 1..Len(d) |-> i], LAMBDA i : d[i].Service_date = NaT)
  IN {[k \in 1..Len(d) |-> d[(nan_idx \o o)[k]]] : o \in Orderings(d, dated, ascending)}

\* df.sort_values("Service date", ascending=...).reset_index(drop=True):
\* the dated rows in sort order, then (na_position="last") the NaT rows in
\* their original order.  The default sort kind is not stable, so rows with
\* equal dates may come out in any order: the result is a set.
sort_values(d, ascending) ==
  LET dated == {i \in 1..Len(d) : d[i].Service_date # NaT}
      nan_idx == SelectSeq([i \in 1..Len(d) |-> i], LAMBDA i : d[i].Service_date = NaT)
  IN {[k \in 1..Len(d) |-> d[(o \o nan_idx)[k]]] : o \in Orderings(d, dated, ascending)}

\* the mask without its Location term; C7 depends on that term
MissingMask_NoLocation(r) ==
  \/ r.Status = <<>>
  \/ r.Service_date = NaT

\* the boolean mask of the quality check; no cell of the frame is NaN except
\* a coerced Service date, so the isna() terms on the other columns are false
MissingMask(r) ==
  \/ r.Status = <<>>
  \/ r.Service_date = NaT
  \/ r.Location = <<>>

Missing(d) == SelectSeq(d, MissingMask)

\* one iteration of the parse loop: its locals.  listed is what
\* extract_location returned, loc the Location after the fallback.
ParseBlock(block) ==
  LET l == extract_location(block)
      svc_date == extract_service_date(block, l.loc_start)
      status == extract_status(block)
      loc == IF l.loc = <<>> THEN extract_notes(block) ELSE l.loc
  IN [listed |-> l.loc, loc_start |-> l.loc_start, svc_date |-> svc_date,
      status |-> status, loc |-> loc]

MakeRow(order_no, f) ==
  [Order_number |-> order_no, Status |-> f.status,
   Service_date |-> f.svc_date, Location |-> f.loc]

(***************************************************************************)
(* The script: every widget interaction reruns it top to bottom            *)
(***************************************************************************)
NoOutput ==
  /\ blocks' = <<>>
  /\ fields' = <<>>
  /\ rows' = <<>>
  /\ df' = <<>>
  /\ missing' = <<>>

\* the sidebar checkbox is toggled; the rerun shows no table
ToggleSort ==
  /\ sort_desc' = ~sort_desc
  /\ screen' = "idle"
  /\ NoOutput
  /\ UNCHANGED raw

\* "Clear": raw = "" is a local of the run that st.experimental_rerun() ends;
\* the text area keeps its content and the rerun shows no table
Clear ==
  /\ screen' = "idle"
  /\ NoOutput
  /\ UNCHANGED <<raw, sort_desc>>

\* "Parse" on blank input
ParseWarn ==
  /\ strip(raw) = <<>>
  /\ screen' = "warning"
  /\ NoOutput
  /\ UNCHANGED <<raw, sort_desc>>

\* "Parse" on input with content
ParseTable ==
  /\ strip(raw) # <<>>
  /\ blocks' = parse_blocks(raw)
  /\ fields' = [i \in 1..Len(blocks') |-> ParseBlock(blocks'[i].text)]
  /\ rows' = [i \in 1..Len(blocks') |-> MakeRow(blocks'[i].order_no, fields'[i])]
  /\ df' \in sort_values(CoerceDates(rows'), ~sort_desc)
  /\ missing' = Missing(df')
  /\ screen' = "table"
  /\ UNCHANGED <<raw, sort_desc>>

Next == ToggleSort \/ Clear \/ ParseWarn \/ ParseTable

(***************************************************************************)
(* Inputs: what the text area holds when the script runs.  A paste is a    *)
(* concatenation of at most MaxFrags fragments of a vocabulary.            *)
(***************************************************************************)
MaxFrags == 3

RECURSIVE Texts(_, _)
Texts(frags, n) ==
  IF n = 0 THEN {<<>>}
  ELSE LET shorter == Texts(frags, n - 1)
       IN shorter \cup {t \o frags[i] : t \in shorter, i \in 1..Len(frags)}

\* order numbers, a separator, a word character, a hyphen, a digit
SegFrags ==
  << <<"2","1","0","0","0","0","0","0","1">>,
     <<" ","2","1","0","0","0","0","0","0","2">>,
     <<" ">>,
     <<"x">>,
     <<"-">>,
     <<"7">> >>

\* status keywords, alone and run together with other letters
StatusFrags ==
  << <<"2","1","0","0","0","0","0","0","1"," ">>,
     <<"c","h","e","c","k","e","d">>,
     <<"P","a","c","k","e","d"," ">>,
     <<"C","O","M","P","L","E","T","E">>,
     <<"d"," ">>,
     <<"u","n">> >>

\* location codes in tolerated spellings, a bay that is not listed, a note
LocFrags ==
  << <<"2","1","0","0","0","0","0","0","1"," ">>,
     <<"r","a","c","k"," ","l","o","w"," ","0","2"," ","p","u","p"," ">>,
     <<"p","u","p"," ","-"," ","b","o","x"," ">>,
     <<"a"," ","-"," ","0","1"," ","*","-"," ">>,
     <<"m","i","s","s","i","n","g"," ","2"," ">>,
     <<"A","-","1","4"," ","P","U","P"," ">> >>

\* dates before and after a location; a date and time on two lines
DateFrags ==
  << <<"2","1","0","0","0","0","0","0","1"," ">>,
     <<"2","0","2","4","-","0","1","-","0","1"," ","0","8",":","0","0"," ">>,
     <<"A","-","0","1"," ","P","U","P"," ","2","0","2","4","-","0","1","-","0","2"," ","\n","0","9",":","0","0"," ">>,
     <<"2","0","2","4","-","0","1","-","0","3","\t","0","9",":","3","0"," ">>,
     <<"m","i","s","s","i","n","g"," ","2"," ">>,
     <<"x","2","0","2","4","-","0","1","-","0","4"," ","0","7",":","0","0"," ">> >>

\* notes, line ends and a listed location
NoteFrags ==
  << <<"2","1","0","0","0","0","0","0","1"," ">>,
     <<"m","i","s","s","i","n","g"," ","2"," ","\r","\n">>,
     <<"I","N","C","O","M","P","L","E","T","E"," ">>,
     <<"A","-","0","1"," ","P","U","P"," ">>,
     <<"R","e","m","a","i","n","i","n","g"," ","I","t","e","m"," ","x">>,
     <<"\n">> >>

\* whole and partial order lines; a date that is not of the calendar
TableFrags ==
  << <<"2","1","0","0","0","0","0","0","1"," ","c","h","e","c","k","e","d"," ","2","0","2","4","-","0","3","-","0","1"," ","1","0",":","0","0"," ","A","-","0","5"," ","P","U","P","\n">>,
     <<"2","1","0","0","0","0","0","0","2"," ","p","i","c","k","i","n","g"," ","2","0","2","4","-","0","3","-","0","2"," ","1","1",":","0","0"," ">>,
     <<"2","1","0","0","0","0","0","0","3"," ">>,
     <<"2","0","2","4","-","1","3","-","0","1"," ","1","0",":","0","0"," ">>,
     <<"2","0","2","4","-","0","3","-","0","1"," ","1","0",":","0","0"," ">> >>

InitWith(frags) ==
  /\ raw \in Texts(frags, MaxFrags)
  /\ sort_desc = TRUE
  /\ screen = "idle"
  /\ blocks = <<>>
  /\ fields = <<>>
  /\ rows = <<>>
  /\ df = <<>>
  /\ missing = <<>>

Init == InitWith(TableFrags)

InitSeg == InitWith(SegFrags)

InitStatus == InitWith(StatusFrags)

InitLoc == InitWith(LocFrags)

InitDate == InitWith(DateFrags)

InitNote == InitWith(NoteFrags)

Spec == Init /\ [][Next]_vars

SpecSeg == InitSeg /\ [][Next]_vars

SpecStatus == InitStatus /\ [][Next]_vars

SpecLoc == InitLoc /\ [][Next]_vars

SpecDate == InitDate /\ [][Next]_vars

SpecNote == InitNote /\ [][Next]_vars

(***************************************************************************)
(* Properties                                                              *)
(***************************************************************************)
IsTable == screen = "table"

Block(i) == blocks[i].text

\* an order number stands at 0-based offset p of t: "2" and eight more
\* digits with no word character on either side
OrderAt(t, p) ==
  /\ p + 9 <= Len(t)
  /\ t[p + 1] = "2"
  /\ \A k \in 2..9 : t[p + k] \in Digits
  /\ ~IsWordAt(t, p)
  /\ ~IsWordAt(t, p + 10)

OrderStarts(t) == {p \in 0..(Len(t) - 1) : OrderAt(t, p)}

RECURSIVE Flatten(_)
Flatten(ss) == IF ss = <<>> THEN <<>> ELSE Head(ss) \o Flatten(Tail(ss))

\* C1: the block texts, concatenated in order, are the input from the start
\* of the first order number to its end; an input without an order number
\* gives no block.
C1_Segmentation ==
  IsTable =>
    IF OrderStarts(raw) = {} THEN blocks = <<>>
    ELSE Flatten([i \in 1..Len(blocks) |-> Block(i)])
           = Slice(raw, Min(OrderStarts(raw)), Len(raw))

C1_Witness ==
  /\ IsTable
  /\ Len(blocks) >= 2
  /\ Min(OrderStarts(raw)) > 0

\* the matches of any listed location pattern in t: <<0-based start, pattern>>
LocHits(t) ==
  {h \in (0..(Len(t) - 1)) \X (1..Len(LOC_PATTERNS)) :
     MatchAt(LOC_PATTERNS[h[2]].rx, t, h[1] + 1) # 0}

\* the date-time strings of t as 0-based [start, end) spans
DateSpans(t) ==
  {<<q - 1, MatchAt(DATE_RE, t, q) - 1>> : q \in MatchStarts(DATE_RE, t, 1)}

\* where the date search stops: the start of the last listed location, or
\* the end of the block
DateLimit(t) ==
  LET H == LocHits(t) IN IF H = {} THEN Len(t) ELSE Max({h[1] : h \in H})

DatesInScope(t) == {d \in DateSpans(t) : d[2] <= DateLimit(t)}

\* C2: the service date of a block is the last date-time string lying wholly
\* before the offset of the listed location, the last one of the whole block
\* when no listed location was found, and empty when no date qualifies.
C2_DateScope ==
  IsTable =>
    \A i \in 1..Len(blocks) :
      LET Q == DatesInScope(Block(i))
      IN IF Q = {} THEN fields[i].svc_date = <<>>
         ELSE \E d \in Q :
                /\ \A e \in Q : e[1] <= d[1]
                /\ fields[i].svc_date = Slice(Block(i), d[1], d[2])

C2_Witness ==
  /\ IsTable
  /\ \E i \in 1..Len(blocks) :
       /\ fields[i].loc_start # None
       /\ fields[i].svc_date # <<>>
       /\ \E d \in DateSpans(Block(i)) : d[1] > fields[i].loc_start

\* C3: the location extractor returns the label and offset of the match with
\* the highest start among the matches of all listed patterns, and ("", None)
\* when none matches.
C3_LastLocation ==
  IsTable =>
    \A i \in 1..Len(blocks) :
      LET H == LocHits(Block(i))
      IN IF H = {}
         THEN fields[i].listed = <<>> /\ fields[i].loc_start = None
         ELSE \E h \in H :
                /\ \A g \in H : g[1] <= h[1]
                /\ fields[i].loc_start = h[1]
                /\ fields[i].listed = LOC_PATTERNS[h[2]].canon

\* a later mention wins over an earlier one whose pattern is further down
\* the list
C3_Witness ==
  /\ IsTable
  /\ \E i \in 1..Len(blocks) :
       \E h, g \in LocHits(Block(i)) :
         /\ h[1] = fields[i].loc_start
         /\ g[1] < h[1]
         /\ g[2] > h[2]

\* keyword w (lower case) stands as a whole word at 0-based offset p of t
WordAt(t, p, w) ==
  /\ p + Len(w) <= Len(t)
  /\ \A k \in 1..Len(w) : Lower(t[p + k]) = w[k]
  /\ ~IsWordAt(t, p)
  /\ ~IsWordAt(t, p + Len(w) + 1)

StatusHits(t) ==
  {h \in (0..(Len(t) - 1)) \X (1..Len(StatusWords)) : WordAt(t, h[1], StatusWords[h[2]])}

TitleCase(w) == <<Upper(Head(w))>> \o Tail(w)

\* C4: the status of a block is the keyword standing as a whole word at the
\* lowest position, first letter upper case and the rest lower case, and
\* empty when no keyword stands as a whole word.
C4_FirstStatus ==
  IsTable =>
    \A i \in 1..Len(blocks) :
      LET H == StatusHits(Block(i))
      IN IF H = {} THEN fields[i].status = <<>>
         ELSE \E h \in H :
                /\ \A g \in H : h[1] <= g[1]
                /\ fields[i].status = TitleCase(StatusWords[h[2]])

C4_Witness ==
  /\ IsTable
  /\ \E i \in 1..Len(blocks) :
       \E h, g \in StatusHits(Block(i)) :
         /\ h[1] < g[1]
         /\ h[2] # g[2]
         /\ fields[i].status = TitleCase(StatusWords[h[2]])

Occurrences(seq, Key(_), v) == Cardinality({k \in 1..Len(seq) : Key(seq[k]) = v})

OrderNoOfBlock(b) == b.order_no

OrderNoOfRow(r) == r.Order_number

\* C5: the table has one row per order-number match of the input, with the
\* same order numbers the same number of times; rows with empty fields or an
\* unparsable date are kept.
C5_OneRowPerBlock ==
  IsTable =>
    /\ Len(blocks) = Cardinality(OrderStarts(raw))
    /\ Len(df) = Len(blocks)
    /\ \A i \in 1..Len(blocks) :
         Occurrences(df, OrderNoOfRow, blocks[i].order_no)
           = Occurrences(blocks, OrderNoOfBlock, blocks[i].order_no)

\* the same number twice: once with a date that is not of the calendar, once
\* with nothing at all
C5_Witness ==
  /\ IsTable
  /\ \E i, j \in 1..Len(rows) :
       /\ i # j
       /\ rows[i].Order_number = rows[j].Order_number
       /\ rows[i].Service_date # <<>>
       /\ to_datetime(rows[i].Service_date) = NaT
       /\ rows[j].Status = <<>> /\ rows[j].Service_date = <<>> /\ rows[j].Location = <<>>

\* a lead phrase of the notes pattern starts at 0-based offset p of t
LeadAt(t, p) ==
  \E n \in 1..Len(NoteLeads) :
    /\ p + Len(NoteLeads[n]) <= Len(t)
    /\ \A k \in 1..Len(NoteLeads[n]) : Lower(t[p + k]) = Lower(NoteLeads[n][k])

\* no line end in t[q:p]
SameLine(t, q, p) == \A k \in (q + 1)..p : t[k] # "\n"

\* a note starts at the first lead phrase of a line
NoteStarts(t) ==
  {p \in 0..(Len(t) - 1) :
     /\ LeadAt(t, p)
     /\ ~\E q \in 0..(p - 1) : LeadAt(t, q) /\ SameLine(t, q, p)}

\* the end (exclusive) of the line that holds offset p
LineEnd(t, p) == Min({e \in p..Len(t) : e = Len(t) \/ t[e + 1] = "\n"})

RECURSIVE Ascending(_)
Ascending(S) ==
  IF S = {} THEN <<>> ELSE <<Min(S)>> \o Ascending(S \ {Min(S)})

\* the notes of t in order of appearance, each from its lead phrase to the
\* end of its line
NotesToLineEnd(t) ==
  LET ps == Ascending(NoteStarts(t))
  IN [n \in 1..Len(ps) |-> Slice(t, ps[n], LineEnd(t, ps[n]))]

NotesTrimmed(t) ==
  LET ns == NotesToLineEnd(t) IN [n \in 1..Len(ns) |-> RStrip(ns[n])]

SemiJoin(parts) == join(<<";", " ">>, parts)

IsListedLabel(t, l) ==
  \E j \in 1..Len(LOC_PATTERNS) :
    MatchStarts(LOC_PATTERNS[j].rx, t, 1) # {} /\ l = LOC_PATTERNS[j].canon

\* C6 as claimed: without a listed location code the Location is the notes,
\* each running to the end of its line, joined by "; "; with one it is the
\* code's label.
C6_NotesToLineEnd ==
  IsTable =>
    \A i \in 1..Len(blocks) :
      IF LocHits(Block(i)) = {}
      THEN rows[i].Location = SemiJoin(NotesToLineEnd(Block(i)))
      ELSE IsListedLabel(Block(i), rows[i].Location)

\* C6 as amended: each note is the text from the first lead phrase of a line
\* to the end of that line with the white space at its end removed.
C6_NotesTrimmed ==
  IsTable =>
    \A i \in 1..Len(blocks) :
      IF LocHits(Block(i)) = {}
      THEN rows[i].Location = SemiJoin(NotesTrimmed(Block(i)))
      ELSE IsListedLabel(Block(i), rows[i].Location)

\* two notes on two lines, the first with white space before its line end
C6_Witness ==
  /\ IsTable
  /\ \E i \in 1..Len(blocks) :
       /\ LocHits(Block(i)) = {}
       /\ Cardinality(NoteStarts(Block(i))) >= 2
       /\ NotesToLineEnd(Block(i))[1] # NotesTrimmed(Block(i))[1]
       /\ rows[i].Location # <<>>

IsFlagged(r) == r.Status = <<>> \/ r.Service_date = NaT \/ r.Location = <<>>

\* C7: the flagged subset holds every row with an empty status, a null
\* service date or an empty location, as often as the table does, and no
\* other row; flagging removes nothing from the table.
C7_Flagged ==
  IsTable =>
    /\ \A k \in 1..Len(df) :
         Cardinality({m \in 1..Len(missing) : missing[m] = df[k]})
           = IF IsFlagged(df[k])
             THEN Cardinality({n \in 1..Len(df) : df[n] = df[k]})
             ELSE 0
    /\ \A m \in 1..Len(missing) : \E k \in 1..Len(df) : df[k] = missing[m]
    /\ Len(df) = Len(rows)

\* a row flagged for its location alone, next to a row that is not flagged
C7_Witness ==
  /\ IsTable
  /\ \E k, n \in 1..Len(df) :
       /\ df[k].Status # <<>> /\ df[k].Service_date # NaT /\ df[k].Location = <<>>
       /\ ~IsFlagged(df[n])
       /\ Len(missing) = 1

\* C8: dated rows are in date order, newest first when sort_desc and oldest
\* first otherwise, and every row with a null date comes after all of them.
C8_Sorted ==
  IsTable =>
    \A i, j \in 1..Len(df) :
      i < j =>
        /\ df[i].Service_date = NaT => df[j].Service_date = NaT
        /\ (df[i].Service_date # NaT /\ df[j].Service_date # NaT) =>
             IF sort_desc
             THEN df[i].Service_date >= df[j].Service_date
             ELSE df[i].Service_date <= df[j].Service_date

\* oldest first: a block without a date came first and is the last row, and
\* the two dated rows changed places
C8_Witness ==
  /\ IsTable
  /\ ~sort_desc
  /\ Len(df) = 3
  /\ rows[1].Service_date = <<>>
  /\ to_datetime(rows[2].Service_date) > to_datetime(rows[3].Service_date)
  /\ df[1].Service_date # NaT
  /\ df[1].Service_date < df[2].Service_date
  /\ df[3].Service_date = NaT

Canonical(s) ==
  /\ \A k \in 1..Len(s) : s[k] \notin LowerSet
  /\ \A k \in 1..(Len(s) - 1) :
       /\ ~(s[k] = " " /\ s[k + 1] = " ")
       /\ ~(s[k] = " " /\ s[k + 1] = "-")
       /\ ~(s[k] = "-" /\ s[k + 1] = " ")

\* C9 as claimed: every non-empty Location of the table is canonical.
C9_AllCanonical ==
  IsTable =>
    \A k \in 1..Len(df) : df[k].Location # <<>> => Canonical(df[k].Location)

\* the table row k shows block i
RowOf(k, i) ==
  /\ df[k].Order_number = rows[i].Order_number
  /\ df[k].Status = rows[i].Status
  /\ df[k].Location = rows[i].Location
  /\ df[k].Service_date = to_datetime(rows[i].Service_date)

\* C9 as amended: a Location taken from a listed location code is canonical
\* (every label of the list is).
C9_ListedCanonical ==
  IsTable =>
    /\ \A j \in 1..Len(LOC_PATTERNS) : Canonical(LOC_PATTERNS[j].canon)
    /\ \A i \in 1..Len(blocks) :
         LocHits(Block(i)) # {} =>
           /\ rows[i].Location # <<>>
           /\ Canonical(rows[i].Location)
    /\ \A k \in 1..Len(df) : \E i \in 1..Len(blocks) : RowOf(k, i)

\* a code written in lower case with spaces is shown by its label
C9_Witness ==
  /\ IsTable
  /\ \E i \in 1..Len(blocks) :
       /\ fields[i].loc_start # None
       /\ rows[i].Location = <<"R","A","C","K","-","L","O","W","-","0","2","-","P","U","P">>
       /\ Block(i)[fields[i].loc_start + 1] = "r"
       /\ \E k \in 1..Len(df) : RowOf(k, i)

DatePart(s) ==
  /\ \A k \in {1, 2, 3, 4, 6, 7, 9, 10} : s[k] \in Digits
  /\ s[5] = "-" /\ s[8] = "-"

\* the five characters HH:MM from position a of s
TimePart(s, a) ==
  /\ \A k \in {a, a + 1, a + 3, a + 4} : s[k] \in Digits
  /\ s[a + 2] = ":"

\* C10 as claimed: a service date is YYYY-MM-DD, one space, HH:MM.
C10_SingleSpace ==
  IsTable =>
    \A i \in 1..Len(blocks) :
      fields[i].svc_date # <<>> =>
        /\ Len(fields[i].svc_date) = 16
        /\ DatePart(fields[i].svc_date)
        /\ fields[i].svc_date[11] = " "
        /\ TimePart(fields[i].svc_date, 12)

\* C10 as amended: a service date is YYYY-MM-DD, one or more white-space
\* characters, HH:MM.
C10_WhiteSpaceRun ==
  IsTable =>
    \A i \in 1..Len(blocks) :
      LET s == fields[i].svc_date
      IN s # <<>> =>
           /\ Len(s) >= 16
           /\ DatePart(s)
           /\ \A k \in 11..(Len(s) - 5) : s[k] \in Whitespace
           /\ TimePart(s, Len(s) - 4)

\* a date and a time on two lines are taken as a service date
C10_Witness ==
  /\ IsTable
  /\ \E i \in 1..Len(blocks) :
       /\ Len(fields[i].svc_date) > 16
       /\ \E k \in 1..Len(fields[i].svc_date) : fields[i].svc_date[k] = "\n"

====
